---- MODULE Spec2Model ----
(***************************************************************************)
(* Item funnel build of cps-growth-copilot                                 *)
(* (app/api/scripts/build_item_funnel_features.py), the merchant API that  *)
(* reads the same database (app/api/merchant.py) and the funnel service    *)
(* (app/api/routers/funnel.py, app/services/funnel.py).                    *)
(*                                                                         *)
(* The state is the DuckDB database: the source behaviour table, the       *)
(* materialized funnel tables, the catalog of tables and views, the temp   *)
(* objects of the running script, the position and outcome of the script,  *)
(* and the last response of the API.                                       *)
(***************************************************************************)
EXTENDS Integers, Sequences, FiniteSets, Bags, TLC

VARIABLES
  source,           \* bag of rows of the source table (user_behavior)
  action_type,      \* type of the action column of the source table
  columns,          \* names of the columns of the source table, NoTable when it is missing
  catalog,          \* names of the persistent tables and views that exist
  loose,            \* rows of item_funnel_features_loose
  strict,           \* rows of item_funnel_features_strict
  user_item_stage,  \* rows of the TEMP TABLE user_item_stage of the running script
  pc,               \* position of the script: "idle" (not running) or "built"
  mode,             \* --mode of the running script or of its last run, "none" before the first
  rate_check,       \* the rate_check = (bad_rate_rows, max_rate) the script printed
  rc,               \* exit status of the script: NULL (none yet), 0, 1 or 3
  error,            \* the exception the script died of, "" when none
  response          \* the last response of the merchant API or of the funnel service

vars == <<source, action_type, columns, catalog, loose, strict, user_item_stage, pc, mode, rate_check, rc,
          error, response>>

----------------------------------------------------------------------------
(* Bounds *)

\* the general data set: several users and items
MaxUser == 2
MaxItem == 2
MaxTs == 2
MaxRows == 3
\* the chain data set: one user-item pair over a longer time line
ChainTs == 4
ChainRows == 4
\* the hop data set: several users on one item, more rows
HopUsers == 2
HopTs == 1
HopRows == 5
\* the coded data set: one pair, every encoding of the action column
CodedTs == 2
CodedRows == 3
MaxCode == 5
\* the text data set
TextTs == 2
TextRows == 3
\* the raw data set
RawTs == 2
RawRows == 2
\* the item data set and the parameters of the item reads
ItemUsers == 2
ItemItems == 2
ItemRows == 3
MaxLimit == 2
MaxMinPv == 2
\* the late data set
LateItems == 2
LateRows == 2
\* the schema data set
SchemaTs == 1
SchemaRows == 1
\* the diagnose data set and the requests of the funnel service
DiagMaxItem == 2
DiagTs == 2
DiagRows == 2
MaxLookback == 2
MaxNow == 3
\* ticks of the clock per day
TicksPerDay == 2
\* the retention data set
RetUsers == 2
RetDays == 5
RetRows == 6
\* the repurchase data set
RepUsers == 2
RepDays == 8
RepRows == 3
\* the segment data set
SegUsers == 2
SegDays == 31
SegRows == 2
\* the week data set
WeekUsers == 2
WeekDays == 9
WeekRows == 3
\* the export data set
ExpUsers == 2
ExpDays == 2
ExpRows == 3

----------------------------------------------------------------------------
(* Program constants *)

\* the most rows an export returns
ExportCap == 200000

----------------------------------------------------------------------------
(* SQL values *)

\* SQL NULL of an integer column (user ids, timestamps and counts are >= 0)
NULL == -1
\* a text value of a user, item or timestamp column that is not a number
\* (not a timestamp)
BADTEXT == -2
\* SQL NULL of a VARCHAR value
NULLSTR == "<null>"
\* SQL NULL of a DOUBLE rate; a non-null rate is the reduced fraction <<n, d>>
NULLRATE == <<>>

Stages == {"pv", "fav", "cart", "buy"}
Modes == {"both", "nonstrict", "strict"}

LOOSE == "item_funnel_features_loose"
STRICT == "item_funnel_features_strict"
V_FEATURES == "item_funnel_features"
V_DEFAULT == "item_funnel_features_default"
V_BOTH == "item_funnel_features_both"

\* a cell of the action column: an INTEGER or a VARCHAR value
IntCell(n) == [type |-> "INTEGER", int |-> n, str |-> ""]
StrCell(s) == [type |-> "VARCHAR", int |-> NULL, str |-> s]

RECURSIVE SumOver(_, _)
SumOver(S, f) ==
  IF S = {} THEN 0
  ELSE LET x == CHOOSE y \in S : TRUE IN f[x] + SumOver(S \ {x}, f)

RECURSIVE GCD(_, _)
GCD(a, b) == IF b = 0 THEN a ELSE GCD(b, a % b)

\* latest instead of earliest
MaxOf(S) == IF S = {} THEN NULL ELSE CHOOSE x \in S : \A y \in S : x >= y

MinOf(S) == IF S = {} THEN NULL ELSE CHOOSE x \in S : \A y \in S : x <= y

\* TRY_CAST(<VARCHAR> AS INTEGER) on the digit strings the model uses
DigitValue ==
  ("0" :> 0) @@ ("1" :> 1) @@ ("2" :> 2) @@ ("3" :> 3) @@ ("4" :> 4) @@
  ("5" :> 5) @@ ("6" :> 6) @@ ("7" :> 7)

TryCastInteger(c) ==
  IF c.type = "INTEGER" THEN c.int
  ELSE IF c.str \in DOMAIN DigitValue THEN DigitValue[c.str] ELSE NULL

\* LOWER(<VARCHAR>) on the strings the model uses
UpperToLower ==
  ("PV" :> "pv") @@ ("FAV" :> "fav") @@ ("CART" :> "cart") @@ ("BUY" :> "buy") @@
  ("Pv" :> "pv") @@ ("Fav" :> "fav") @@ ("Cart" :> "cart") @@ ("Buy" :> "buy") @@
  ("PV " :> "pv ") @@ (" BUY" :> " buy") @@ ("CLICK" :> "click")

Lower(s) == IF s \in DOMAIN UpperToLower THEN UpperToLower[s] ELSE s

\* CAST(<action> AS VARCHAR)
IntText == [n \in 0..7 |-> CHOOSE s \in DOMAIN DigitValue : DigitValue[s] = n]

CastVarchar(c) == IF c.type = "VARCHAR" THEN c.str ELSE IntText[c.int]

----------------------------------------------------------------------------
(* 1) ub_norm: the normalized behaviour view *)

\* the codes of fav and cart exchanged
NormActionSwapped(c) ==
  IF TryCastInteger(c) # NULL
  THEN CASE TryCastInteger(c) = 1 -> "pv"
         [] TryCastInteger(c) = 2 -> "cart"
         [] TryCastInteger(c) = 3 -> "fav"
         [] TryCastInteger(c) = 4 -> "buy"
         [] OTHER -> NULLSTR
  ELSE Lower(CastVarchar(c))

\* the CASE of the action column
NormAction(c) ==
  IF TryCastInteger(c) # NULL
  THEN CASE TryCastInteger(c) = 1 -> "pv"
         [] TryCastInteger(c) = 2 -> "fav"
         [] TryCastInteger(c) = 3 -> "cart"
         [] TryCastInteger(c) = 4 -> "buy"
         [] OTHER -> NULLSTR
  ELSE Lower(CastVarchar(c))

\* the CASE of the ts column, for BIGINT timestamps
NormalizeTs(t) == IF t # NULL THEN t ELSE NULL

NormRow(r) ==
  [user_id |-> r.user_id, item_id |-> r.item_id,
   action |-> NormAction(r.action), ts |-> NormalizeTs(r.ts)]

\* the WHERE clause of ub_norm
NotNullRow(r) ==
  /\ r.user_id # NULL
  /\ r.item_id # NULL
  /\ ~(r.action.type = "INTEGER" /\ r.action.int = NULL)
  /\ ~(r.action.type = "VARCHAR" /\ r.action.str = NULLSTR)
  /\ r.ts # NULL

\* ub_norm over a source bag: a bag, one row per kept source row
UbNorm(src) ==
  LET kept == {r \in BagToSet(src) : NotNullRow(r)}
      out == {NormRow(r) : r \in kept}
  IN [n \in out |->
        SumOver({r \in kept : NormRow(r) = n}, [r \in kept |-> CopiesIn(r, src)])]

\* CAST(user AS BIGINT), CAST(item AS BIGINT) and CAST(ts AS TIMESTAMP) are
\* plain casts: they raise on a text that is not a number (a timestamp)
CastRaises(r) == r.user_id = BADTEXT \/ r.item_id = BADTEXT \/ r.ts = BADTEXT

\* reading ub_norm raises a ConversionException
ConversionError(src) == \E r \in BagToSet(src) : NotNullRow(r) /\ CastRaises(r)

----------------------------------------------------------------------------
(* 2) user_item_stage: earliest timestamp of each action per user-item pair *)

StageRows(ub) ==
  {n \in BagToSet(ub) : n.action \in {"pv", "fav", "cart", "buy"} /\ n.ts # NULL}

\* MIN(CASE WHEN action = a THEN ts END) over the group of (u, i)
MinTs(rows, u, i, a) ==
  MinOf({n.ts : n \in {m \in rows : m.user_id = u /\ m.item_id = i /\ m.action = a}})

UserItemStage(ub) ==
  LET rows == StageRows(ub)
      groups == {<<n.user_id, n.item_id>> : n \in rows}
  IN {[user_id |-> g[1], item_id |-> g[2],
       pv_ts |-> MinTs(rows, g[1], g[2], "pv"),
       fav_ts |-> MinTs(rows, g[1], g[2], "fav"),
       cart_ts |-> MinTs(rows, g[1], g[2], "cart"),
       buy_ts |-> MinTs(rows, g[1], g[2], "buy")] : g \in groups}

----------------------------------------------------------------------------
(* 3) _select_sql: the item funnel of one mode *)

\* the operands of >= taken the other way round
GeSwapped(a, b) == a # NULL /\ b # NULL /\ b >= a

\* SQL comparisons: a comparison with NULL is not true
Ge(a, b) == a # NULL /\ b # NULL /\ a >= b

\* equal timestamps pass the strict comparison
GtOrEqual(a, b) == a # NULL /\ b # NULL /\ a >= b
Gt(a, b) == a # NULL /\ b # NULL /\ a > b

\* the loose fav test with > in place of >=
fav_ok_after(st, p) == p.pv_ts # NULL /\ p.fav_ts # NULL /\ Gt(p.fav_ts, p.pv_ts)

fav_ok(st, p) ==
  IF st = 0
  THEN p.pv_ts # NULL /\ p.fav_ts # NULL /\ Ge(p.fav_ts, p.pv_ts)
  ELSE p.pv_ts # NULL /\ p.fav_ts # NULL /\ Gt(p.fav_ts, p.pv_ts)

\* the strict cart test without the fav link of the chain
cart_ok_skipfav(st, p) ==
  IF st = 0
  THEN p.pv_ts # NULL /\ p.cart_ts # NULL /\ Ge(p.cart_ts, p.pv_ts)
  ELSE p.pv_ts # NULL /\ p.cart_ts # NULL /\ Gt(p.cart_ts, p.pv_ts)

\* the loose cart test without the pv anchor
cart_ok_nopv(st, p) ==
  IF st = 0
  THEN p.cart_ts # NULL
  ELSE /\ p.pv_ts # NULL /\ p.fav_ts # NULL /\ p.cart_ts # NULL
       /\ Gt(p.fav_ts, p.pv_ts) /\ Gt(p.cart_ts, p.fav_ts)

cart_ok(st, p) ==
  IF st = 0
  THEN p.pv_ts # NULL /\ p.cart_ts # NULL /\ Ge(p.cart_ts, p.pv_ts)
  ELSE /\ p.pv_ts # NULL /\ p.fav_ts # NULL /\ p.cart_ts # NULL
       /\ Gt(p.fav_ts, p.pv_ts) /\ Gt(p.cart_ts, p.fav_ts)

\* every buyer counted, viewed or not
buy_ok_nopv(st, p) == p.buy_ts # NULL

buy_ok(st, p) ==
  IF st = 0
  THEN p.pv_ts # NULL /\ p.buy_ts # NULL /\ Ge(p.buy_ts, p.pv_ts)
  ELSE /\ p.pv_ts # NULL /\ p.fav_ts # NULL /\ p.cart_ts # NULL /\ p.buy_ts # NULL
       /\ Gt(p.fav_ts, p.pv_ts) /\ Gt(p.cart_ts, p.fav_ts) /\ Gt(p.buy_ts, p.cart_ts)

fav_cart_ok(st, p) ==
  IF st = 0
  THEN p.fav_ts # NULL /\ p.cart_ts # NULL /\ Ge(p.cart_ts, p.fav_ts)
  ELSE p.fav_ts # NULL /\ p.cart_ts # NULL /\ Gt(p.cart_ts, p.fav_ts)

cart_buy_ok(st, p) ==
  IF st = 0
  THEN p.cart_ts # NULL /\ p.buy_ts # NULL /\ Ge(p.buy_ts, p.cart_ts)
  ELSE p.cart_ts # NULL /\ p.buy_ts # NULL /\ Gt(p.buy_ts, p.cart_ts)

\* no null-safety: the denominator is passed as it is
NullIfNever(a, b) == a

\* NULLIF(a, b)
NullIf(a, b) == IF a = b THEN NULL ELSE a

\* CAST(n AS DOUBLE) / d : NULL when an operand is NULL; n/0 is not a
\* finite number and is kept as <<n, 0>>
Divide(n, d) ==
  IF n = NULL \/ d = NULL THEN NULLRATE
  ELSE IF d = 0 THEN <<n, 0>>
  ELSE <<n \div GCD(n, d), d \div GCD(n, d)>>

\* SUM(CASE WHEN <test> THEN 1 ELSE 0 END) over a group, given the rows
\* of the group that pass the test
SumCase(passing) == Cardinality(passing)

ItemRow(st, uis, it) ==
  LET grp == {p \in uis : p.item_id = it}
      pv == SumCase({p \in grp : p.pv_ts # NULL})
      fav == SumCase({p \in grp : fav_ok(st, p)})
      cart == SumCase({p \in grp : cart_ok(st, p)})
      buy == SumCase({p \in grp : buy_ok(st, p)})
      fav_cart == SumCase({p \in grp : fav_cart_ok(st, p)})
      cart_buy == SumCase({p \in grp : cart_buy_ok(st, p)})
  IN [item_id |-> it,
      pv |-> pv,
      fav |-> fav,
      cart |-> cart,
      buy |-> buy,
      pv_count |-> pv,
      fav_count |-> fav,
      cart_count |-> cart,
      buy_count |-> buy,
      pv_to_fav_rate |-> Divide(fav, NullIf(pv, 0)),
      pv_to_cart_rate |-> Divide(cart, NullIf(pv, 0)),
      pv_to_buy_rate |-> Divide(buy, NullIf(pv, 0)),
      fav_to_cart_rate |-> Divide(fav_cart, NullIf(fav, 0)),
      cart_to_buy_rate |-> Divide(cart_buy, NullIf(cart, 0))]

\* items without a pv pair filtered out (HAVING pv > 0)
SelectSqlHavingPv(st, uis) ==
  {ItemRow(st, uis, it) : it \in {p.item_id : p \in {q \in uis : q.pv_ts # NULL}}}

\* SELECT ... FROM user_item_stage GROUP BY item_id
SelectSql(st, uis) == {ItemRow(st, uis, it) : it \in {p.item_id : p \in uis}}

\* the funnel tables a build writes for a source table
BuildLoose(src) == SelectSql(0, UserItemStage(UbNorm(src)))
BuildStrict(src) == SelectSql(1, UserItemStage(UbNorm(src)))

----------------------------------------------------------------------------
(* The script *)

\* rows of the source table the model inserts
Rows ==
  [user_id : 1..MaxUser, item_id : 1..MaxItem,
   action : {StrCell(a) : a \in Stages}, ts : 1..MaxTs]

ChainRowSet ==
  [user_id : {1}, item_id : {1}, action : {StrCell(a) : a \in Stages}, ts : 1..ChainTs]

HopRowSet ==
  [user_id : 1..HopUsers, item_id : {1}, action : {StrCell(a) : a \in Stages}, ts : 1..HopTs]

\* the cells an action column of a type can hold
ActionCells(t) ==
  IF t = "INTEGER" THEN {IntCell(n) : n \in 1..MaxCode}
  ELSE {StrCell(a) : a \in Stages \cup {IntText[n] : n \in 1..MaxCode}}

CodedRowSet(t) ==
  [user_id : {1}, item_id : {1}, action : ActionCells(t), ts : 1..CodedTs]

\* the text data set: one pair, action texts in any letter case and with
\* blanks around them
TextActions == {"pv", "buy", "PV", "Buy", "PV ", " BUY", "CLICK"}

TextRowSet ==
  [user_id : {1}, item_id : {1}, action : {StrCell(a) : a \in TextActions}, ts : 1..TextTs]

\* the raw data set: rows of one pair in which at most one column is NULL
\* or holds a value that cannot be parsed
GoodRows == [user_id : {1}, item_id : {1}, action : {StrCell("pv"), StrCell("buy")}, ts : 1..RawTs]

RawRowSet ==
  GoodRows
  \cup {[r EXCEPT !.user_id = x] : r \in GoodRows, x \in {NULL, BADTEXT}}
  \cup {[r EXCEPT !.item_id = x] : r \in GoodRows, x \in {NULL, BADTEXT}}
  \cup {[r EXCEPT !.action = StrCell(x)] : r \in GoodRows, x \in {NULLSTR, "CLICK"}}
  \cup {[r EXCEPT !.ts = x] : r \in GoodRows, x \in {NULL, BADTEXT}}

\* the columns of user_behavior as the import creates it
ImportedColumns == {"user_id", "item_id", "behavior", "timestamp"}

\* the source table does not exist
NoTable == {"<no table>"}

\* the column names the model gives a source table
ColumnNames == {"user_id", "USER_ID", "item_id", "behavior", "behavior_type", "timestamp"}

\* c.lower() on the column names of the model
ColLower(c) == IF c = "USER_ID" THEN "user_id" ELSE c

\* _pick_col of the build script: a candidate matches a column in any letter
\* case; TRUE when a column is found
PickCol(existing, candidates) ==
  \E c \in existing : ColLower(c) \in candidates

\* the four _require_col calls of main find their column
RequireCols(cols) ==
  /\ PickCol(cols, {"user_id", "userid", "uid", "user"})
  /\ PickCol(cols, {"item_id", "itemid", "iid", "item"})
  /\ PickCol(cols, {"behavior_type", "behavior", "action", "event_type", "type"})
  /\ PickCol(cols, {"ts", "timestamp", "time", "event_time"})

\* _pick of the merchant API: a candidate is a column, letter for letter;
\* TRUE when a column is found
Pick(cols, cands) == cols \cap cands # {}

\* the user and timestamp columns the reads of the merchant API need
UserAndTs(cols) ==
  /\ Pick(cols, {"user_id", "user"})
  /\ Pick(cols, {"timestamp", "time", "ts"})

BehaviorCol(cols) == Pick(cols, {"behavior_type", "behavior"})

\* no request was served yet
NoResponse == [endpoint |-> "none", status |-> 0, body |-> <<>>]

InitDb ==
  /\ source = EmptyBag
  /\ catalog = {}
  /\ loose = {}
  /\ strict = {}
  /\ user_item_stage = {}
  /\ pc = "idle"
  /\ mode = "none"
  /\ rate_check = <<NULL, NULLRATE>>
  /\ rc = NULL
  /\ error = ""
  /\ response = NoResponse

Init == InitDb /\ action_type = "VARCHAR" /\ columns = ImportedColumns

InitCoded == InitDb /\ action_type \in {"INTEGER", "VARCHAR"} /\ columns = ImportedColumns

\* rows are loaded into the source table, before the funnels are first built
\* and before the API serves; a data set holds at most cap rows and at most
\* copies copies of a row
InsertFrom(D, cap, copies) ==
  /\ pc = "idle"
  /\ columns # NoTable
  /\ RequireCols(columns)
  /\ catalog = {}
  /\ response.endpoint = "none"
  /\ BagCardinality(source) < cap
  /\ \E r \in D :
        /\ CopiesIn(r, source) < copies
        /\ source' = source (+) SetToBag({r})
  /\ UNCHANGED <<action_type, columns, catalog, loose, strict, user_item_stage, pc, mode,
                 rate_check, rc, error, response>>

InsertRow == InsertFrom(Rows, MaxRows, MaxRows)
InsertChainRow == InsertFrom(ChainRowSet, ChainRows, 1)
InsertHopRow == InsertFrom(HopRowSet, HopRows, HopRows)
InsertCodedRow == InsertFrom(CodedRowSet(action_type), CodedRows, 1)
InsertTextRow == InsertFrom(TextRowSet, TextRows, 1)
InsertRawRow == InsertFrom(RawRowSet, RawRows, 1)

\* step 3) drops the table of the mode that is not built
CatalogAfterDropsOther(m) ==
  LET c3 == IF m = "both" THEN catalog \cup {LOOSE, STRICT}
            ELSE IF m = "nonstrict" THEN (catalog \ {STRICT}) \cup {LOOSE}
            ELSE (catalog \ {LOOSE}) \cup {STRICT}
      c4 == (c3 \ {V_FEATURES, V_DEFAULT}) \cup {V_FEATURES, V_DEFAULT}
  IN (c4 \ {V_BOTH}) \cup (IF m = "both" THEN {V_BOTH} ELSE {})

\* the catalog after steps 3) to 5) of a build of mode m that does not raise
CatalogAfter(m) ==
  LET c3 == catalog \cup (IF m \in {"both", "nonstrict"} THEN {LOOSE} ELSE {})
                    \cup (IF m \in {"both", "strict"} THEN {STRICT} ELSE {})
      c4 == (c3 \ {V_FEATURES, V_DEFAULT}) \cup {V_FEATURES, V_DEFAULT}
  IN (c4 \ {V_BOTH}) \cup (IF m = "both" THEN {V_BOTH} ELSE {})

\* build_item_funnel_features(con, ..., mode = m) runs to its end
BuildOk(m) ==
  /\ pc = "idle"
  /\ columns # NoTable
  /\ RequireCols(columns)
  /\ ~ConversionError(source)
  /\ (m \in {"both", "nonstrict"} \/ LOOSE \in catalog)
  /\ user_item_stage' = UserItemStage(UbNorm(source))
  /\ loose' = IF m \in {"both", "nonstrict"} THEN SelectSql(0, user_item_stage') ELSE loose
  /\ strict' = IF m \in {"both", "strict"} THEN SelectSql(1, user_item_stage') ELSE strict
  /\ catalog' = CatalogAfter(m)
  /\ pc' = "built"
  /\ mode' = m
  /\ rate_check' = <<NULL, NULLRATE>>
  /\ rc' = NULL
  /\ error' = ""
  /\ UNCHANGED <<source, action_type, columns, response>>

\* mode strict on a database without item_funnel_features_loose: the
\* CREATE VIEW item_funnel_features raises, the script dies
BuildRaises(m) ==
  /\ pc = "idle"
  /\ columns # NoTable
  /\ RequireCols(columns)
  /\ m = "strict"
  /\ ~ConversionError(source)
  /\ LOOSE \notin catalog
  /\ strict' = SelectSql(1, UserItemStage(UbNorm(source)))
  /\ catalog' = (catalog \cup {STRICT}) \ {V_FEATURES, V_DEFAULT}
  /\ user_item_stage' = {}
  /\ pc' = "idle"
  /\ mode' = m
  /\ rate_check' = <<NULL, NULLRATE>>
  /\ rc' = 1
  /\ error' = "CatalogException"
  /\ UNCHANGED <<source, action_type, columns, loose, response>>

Build == \E m \in Modes : BuildOk(m) \/ BuildRaises(m)

\* a source row makes a plain cast raise: CREATE TEMP TABLE user_item_stage
\* raises before any table is written, the script dies
BuildConversionError(m) ==
  /\ pc = "idle"
  /\ columns # NoTable
  /\ RequireCols(columns)
  /\ ConversionError(source)
  /\ mode' = m
  /\ rate_check' = <<NULL, NULLRATE>>
  /\ rc' = 1
  /\ error' = "ConversionException"
  /\ UNCHANGED <<source, action_type, columns, catalog, loose, strict, user_item_stage, pc,
                 response>>

\* PRAGMA table_info of a missing source table raises, main prints the
\* cause and returns 3
BuildNoTable(m) ==
  /\ pc = "idle"
  /\ columns = NoTable
  /\ mode' = m
  /\ rate_check' = <<NULL, NULLRATE>>
  /\ rc' = 3
  /\ error' = ""
  /\ UNCHANGED <<source, action_type, columns, catalog, loose, strict, user_item_stage, pc,
                 response>>

\* a _require_col call of main finds no column and raises a RuntimeError
\* that nothing catches, the script dies
BuildMissingColumn(m) ==
  /\ pc = "idle"
  /\ columns # NoTable
  /\ ~RequireCols(columns)
  /\ mode' = m
  /\ rate_check' = <<NULL, NULLRATE>>
  /\ rc' = 1
  /\ error' = "RuntimeError"
  /\ UNCHANGED <<source, action_type, columns, catalog, loose, strict, user_item_stage, pc,
                 response>>

BuildRaw == \E m \in Modes : BuildOk(m) \/ BuildRaises(m) \/ BuildConversionError(m)

\* a > b on rates
RateGt(a, b) == a[1] * b[2] > b[1] * a[2]

\* pv_to_buy_rate > 1.00001
BadRate(x) == x # NULLRATE /\ x[1] * 100000 > 100001 * x[2]

\* MAX(pv_to_buy_rate)
MaxRate(tbl) ==
  LET S == {r.pv_to_buy_rate : r \in tbl} \ {NULLRATE}
  IN IF S = {} THEN NULLRATE ELSE CHOOSE x \in S : \A y \in S : ~RateGt(y, x)

\* the quick check of main over the view item_funnel_features, then return 0
RateCheck ==
  /\ pc = "built"
  /\ rate_check' = <<IF loose = {} THEN NULL
                     ELSE Cardinality({r \in loose : BadRate(r.pv_to_buy_rate)}),
                     MaxRate(loose)>>
  /\ user_item_stage' = {}
  /\ pc' = "idle"
  /\ rc' = 0
  /\ UNCHANGED <<source, action_type, columns, catalog, loose, strict, mode, error, response>>

Next == InsertRow \/ Build \/ RateCheck
Spec == Init /\ [][Next]_vars

NextChain == InsertChainRow \/ Build \/ RateCheck
SpecChain == Init /\ [][NextChain]_vars

NextHop == InsertHopRow \/ Build \/ RateCheck
SpecHop == Init /\ [][NextHop]_vars

NextCoded == InsertCodedRow \/ Build \/ RateCheck
SpecCoded == InitCoded /\ [][NextCoded]_vars

----------------------------------------------------------------------------
(* The merchant API: GET /merchant/metrics *)

\* _ts_expr: the timestamp of a row, NULL when no format parses it
TsExpr(t) == IF t \in {NULL, BADTEXT} THEN NULL ELSE t

\* date(<timestamp>): the day of a timestamp counted in ticks
Date(t) == t \div TicksPerDay

\* <timestamp> + interval n day
PlusDays(t, n) == t + n * TicksPerDay

\* max(d)
Latest(S) == IF S = {} THEN NULL ELSE CHOOSE x \in S : \A y \in S : x >= y

\* day_users: one row per (day, user) with a parseable timestamp
DayUsers(src) ==
  {[d |-> Date(TsExpr(r.ts)), uid |-> r.user_id] :
     r \in {x \in BagToSet(src) : TsExpr(x.ts) # NULL}}

\* ret: per day the active users and those also active on the next day
Ret(du) ==
  {[d |-> day,
    active_users |-> Cardinality({a \in du : a.d = day}),
    retained_users |->
       SumCase({a \in du : a.d = day /\ a.uid # NULL
                             /\ [d |-> day + 1, uid |-> a.uid] \in du})] :
     day \in {a.d : a \in du}}

\* no d1_retention (None)
NoD1 == [day |-> NULL, active_users |-> NULL, retained_users |-> NULL, rate |-> NULLRATE]

\* the day below the latest day instead of the latest day below it
D1LowestDay(src) ==
  LET ret == Ret(DayUsers(src))
      cand == {r \in ret : r.d < Latest({q.d : q \in ret})}
  IN IF cand = {} THEN NoD1
     ELSE LET top == CHOOSE r \in cand : \A q \in cand : r.d <= q.d
          IN [day |-> top.d, active_users |-> top.active_users,
              retained_users |-> top.retained_users,
              rate |-> Divide(top.retained_users, NullIf(top.active_users, 0))]

\* where d < (select max(d) from ret) order by d desc limit 1
D1Retention(src) ==
  LET ret == Ret(DayUsers(src))
      cand == {r \in ret : r.d < Latest({q.d : q \in ret})}
  IN IF cand = {} THEN NoD1
     ELSE LET top == CHOOSE r \in cand : \A q \in cand : r.d >= q.d
          IN [day |-> top.d, active_users |-> top.active_users,
              retained_users |-> top.retained_users,
              rate |-> Divide(top.retained_users, NullIf(top.active_users, 0))]

\* _buy_pred: lower(cast(b as varchar)) = 'buy' OR cast(b as varchar) = '4'
BuyPred(c) == Lower(CastVarchar(c)) = "buy" \/ CastVarchar(c) = "4"

\* buys: the buy events with a parseable timestamp
Buys(src) ==
  {[uid |-> r.user_id, ts |-> TsExpr(r.ts)] :
     r \in {x \in BagToSet(src) : TsExpr(x.ts) # NULL /\ BuyPred(x.action)}}

\* first_buy: min(ts) per uid
FirstBuy(buys) ==
  {[uid |-> u, first_ts |-> MinOf({b.ts : b \in {x \in buys : x.uid = u}})] :
     u \in {b.uid : b \in buys}}

\* the repeat purchase test with the first purchase itself passing
RepeatsOrSame(buys, fb) ==
  \E b2 \in buys : /\ b2.uid = fb.uid /\ fb.uid # NULL
                    /\ b2.ts >= fb.first_ts
                    /\ b2.ts <= PlusDays(fb.first_ts, 7)

\* exists (select 1 from buys b2 where b2.uid = fb.uid and
\* b2.ts > fb.first_ts and b2.ts <= fb.first_ts + interval 7 day)
Repeats(buys, fb) ==
  \E b2 \in buys : /\ b2.uid = fb.uid /\ fb.uid # NULL
                    /\ b2.ts > fb.first_ts
                    /\ b2.ts <= PlusDays(fb.first_ts, 7)

\* agg: count(*) and sum(case when exists ...) over first_buy; the sum over
\* no row is NULL
Agg(src) ==
  LET buys == Buys(src)
      fbs == FirstBuy(buys)
  IN [buyers |-> Cardinality(fbs),
      repurchasers |-> IF fbs = {} THEN NULL
                       ELSE SumCase({fb \in fbs : Repeats(buys, fb)})]

\* the repurchase_7d payload of an agg row whose columns are not NULL
Repurchase7d(agg) ==
  [buyers |-> agg.buyers, repurchasers_7d |-> agg.repurchasers,
   rate |-> Divide(agg.repurchasers, NullIf(agg.buyers, 0))]

\* rep_payload = None
NoRepurchase == [buyers |-> NULL, repurchasers_7d |-> NULL, rate |-> NULLRATE]

\* the {"error": ...} a read returns for a missing table or column
Unavailable(cols) ==
  [error |-> IF cols = NoTable THEN "table user_behavior not found"
             ELSE "user_id or timestamp/time column missing"]

\* _metrics_payload on a database without the table or the columns
MetricsUnavailable ==
  /\ pc = "idle"
  /\ columns = NoTable \/ ~UserAndTs(columns)
  /\ response' = [endpoint |-> "metrics", status |-> 200, body |-> Unavailable(columns)]
  /\ UNCHANGED <<source, action_type, columns, catalog, loose, strict, user_item_stage, pc, mode,
                 rate_check, rc, error>>

\* GET /merchant/metrics: _metrics_payload; int(rep[1]) raises a TypeError
\* when repurchasers is NULL and the request ends as a server error
Metrics ==
  /\ pc = "idle"
  /\ columns # NoTable
  /\ UserAndTs(columns)
  /\ response' =
        IF BehaviorCol(columns) /\ Agg(source).repurchasers = NULL
        THEN [endpoint |-> "metrics", status |-> 500, body |-> <<>>]
        ELSE [endpoint |-> "metrics", status |-> 200,
              body |-> [d1_retention |-> D1Retention(source),
                        repurchase_7d |-> IF BehaviorCol(columns)
                                          THEN Repurchase7d(Agg(source))
                                          ELSE NoRepurchase]]
  /\ UNCHANGED <<source, action_type, columns, catalog, loose, strict, user_item_stage, pc, mode,
                 rate_check, rc, error>>

\* the retention data set: buy events of several users at the start of a day
RetRowSet ==
  [user_id : 1..RetUsers, item_id : {1}, action : {StrCell("buy")},
   ts : {d * TicksPerDay : d \in 1..RetDays}]

InsertRetRow == InsertFrom(RetRowSet, RetRows, 1)

\* the repurchase data set: views and buys of several users at any tick
RepRowSet ==
  [user_id : 1..RepUsers, item_id : {1}, action : {StrCell("pv"), StrCell("buy")},
   ts : 0..(RepDays * TicksPerDay)]

InsertRepRow == InsertFrom(RepRowSet, RepRows, 1)

NextRet == InsertRetRow \/ Metrics
SpecRet == Init /\ [][NextRet]_vars

NextRep == InsertRepRow \/ Metrics
SpecRep == Init /\ [][NextRep]_vars

----------------------------------------------------------------------------
(* The merchant API: GET /merchant/segments data and /merchant/actions/export_users *)

Segments == {"new", "active", "warm", "dormant"}

\* e: one row per (user, day) with a parseable timestamp
SegEvents(src) ==
  {[u |-> r.user_id, d |-> Date(TsExpr(r.ts))] :
     r \in {x \in BagToSet(src) : TsExpr(x.ts) # NULL}}

\* anchor: max(d) over e
AnchorDay(src) == Latest({x.d : x \in SegEvents(src)})

\* agg: per user of the 30-day window the first and last day, the days of
\* the last 7 days and the days of the window
SegAgg(src) ==
  LET e == SegEvents(src)
      anchor == AnchorDay(src)
      win == {x \in e : x.d >= anchor - 30}
  IN {[u |-> usr,
       first_day |-> MinOf({x.d : x \in {y \in win : y.u = usr}}),
       last_day |-> Latest({x.d : x \in {y \in win : y.u = usr}}),
       days_7d |-> SumCase({x \in win : x.u = usr /\ x.d >= anchor - 7}),
       active_days_30d |-> Cardinality({x \in win : x.u = usr})] :
      usr \in {x.u : x \in win}}

\* the case with the active rule asking for 2 days
SegmentCaseTwoDays(a, anchor) ==
  IF a.first_day = anchor THEN "new"
  ELSE IF a.last_day = anchor /\ a.days_7d >= 2 THEN "active"
  ELSE IF a.last_day < anchor /\ a.last_day >= anchor - 7 THEN "warm"
  ELSE IF a.last_day < anchor - 7 /\ a.last_day >= anchor - 30 THEN "dormant"
  ELSE "dormant"

\* seg of _segments_payload: the first rule that matches
SegmentCase(a, anchor) ==
  IF a.first_day = anchor THEN "new"
  ELSE IF a.last_day = anchor /\ a.days_7d >= 3 THEN "active"
  ELSE IF a.last_day < anchor /\ a.last_day >= anchor - 7 THEN "warm"
  ELSE IF a.last_day < anchor - 7 /\ a.last_day >= anchor - 30 THEN "dormant"
  ELSE "dormant"

\* seg: the segment of every user of agg
Seg(src) ==
  {[u |-> a.u, segment |-> SegmentCase(a, AnchorDay(src)),
    active_days_30d |-> a.active_days_30d] : a \in SegAgg(src)}

\* a segment with a user is left out of stat
StatNoDormant(src) ==
  LET seg == Seg(src)
  IN {[segment |-> sg,
       users |-> Cardinality({x \in seg : x.segment = sg}),
       avg_actions |-> Divide(SumOver({x \in seg : x.segment = sg},
                                      [x \in seg |-> x.active_days_30d]),
                              Cardinality({x \in seg : x.segment = sg}))] :
      sg \in {x.segment : x \in seg} \ {"dormant"}}

\* stat: the users and the average of active_days_30d per segment
Stat(src) ==
  LET seg == Seg(src)
  IN {[segment |-> sg,
       users |-> Cardinality({x \in seg : x.segment = sg}),
       avg_actions |-> Divide(SumOver({x \in seg : x.segment = sg},
                                      [x \in seg |-> x.active_days_30d]),
                              Cardinality({x \in seg : x.segment = sg}))] :
      sg \in {x.segment : x \in seg}}

\* the rows of the query: stat with the share of each segment
SegmentRows(src) ==
  LET stat == Stat(src)
      total == IF stat = {} THEN NULL ELSE SumOver(stat, [x \in stat |-> x.users])
  IN {[segment |-> x.segment, users |-> x.users,
       share |-> Divide(x.users, NullIf(total, 0)),
       avg_actions |-> x.avg_actions] : x \in stat}

\* order by users desc: every order of the rows with no row before one of
\* more users
OrderedByUsers(rows) ==
  {sq \in [1..Cardinality(rows) -> rows] :
     /\ \A i, j \in 1..Cardinality(rows) : i < j => sq[i] # sq[j]
     /\ \A i, j \in 1..Cardinality(rows) : i < j => sq[i].users >= sq[j].users}

\* total_users += int(users or 0) over the rows
RECURSIVE TotalUsers(_)
TotalUsers(segs) ==
  IF segs = <<>> THEN 0 ELSE Head(segs).users + TotalUsers(Tail(segs))

\* GET /merchant/dashboard -> lifecycle.segments: _segments_payload
SegmentsPayload ==
  /\ pc = "idle"
  /\ columns # NoTable
  /\ UserAndTs(columns)
  /\ \E segs \in OrderedByUsers(SegmentRows(source)) :
        response' = [endpoint |-> "segments", status |-> 200,
                     body |-> [anchor_day |-> IF segs = <<>> THEN NULL ELSE AnchorDay(source),
                               total_users |-> TotalUsers(segs),
                               segments |-> segs]]
  /\ UNCHANGED <<source, action_type, columns, catalog, loose, strict, user_item_stage, pc, mode,
                 rate_check, rc, error>>

\* _segments_payload on a database without the table or the columns
SegmentsUnavailable ==
  /\ pc = "idle"
  /\ columns = NoTable \/ ~UserAndTs(columns)
  /\ response' = [endpoint |-> "segments", status |-> 200, body |-> Unavailable(columns)]
  /\ UNCHANGED <<source, action_type, columns, catalog, loose, strict, user_item_stage, pc, mode,
                 rate_check, rc, error>>

\* the segment data set: events of several users at the start of a day,
\* over more than the 30-day window
SegRowSet ==
  [user_id : 1..SegUsers, item_id : {1}, action : {StrCell("pv")},
   ts : {d * TicksPerDay : d \in 0..SegDays}]

InsertSegRow == InsertFrom(SegRowSet, SegRows, 1)

\* the week data set: events of several users over a little more than the
\* 7-day window
WeekRowSet ==
  [user_id : 1..WeekUsers, item_id : {1}, action : {StrCell("pv")},
   ts : {d * TicksPerDay : d \in 0..WeekDays}]

InsertWeekRow == InsertFrom(WeekRowSet, WeekRows, 1)

\* (segment or "").strip().lower() on the strings the model uses
StripLower == (" Warm " :> "warm") @@ ("VIP" :> "vip") @@ ("" :> "")

\* _segment_sql: the segment asked for, warm for an unknown one
ResolveSegment(p) ==
  LET seg == IF p \in DOMAIN StripLower THEN StripLower[p] ELSE p
  IN IF seg \notin Segments THEN "warm" ELSE seg

\* agg of the exported query
SegmentSqlAgg(src) ==
  LET e == SegEvents(src)
      anchor == AnchorDay(src)
      win == {x \in e : x.d >= anchor - 30}
  IN {[u |-> usr,
       first_day |-> MinOf({x.d : x \in {y \in win : y.u = usr}}),
       last_day |-> Latest({x.d : x \in {y \in win : y.u = usr}}),
       days_7d |-> SumCase({x \in win : x.u = usr /\ x.d >= anchor - 7})] :
      usr \in {x.u : x \in win}}

\* seg of the exported query
SegmentSqlCase(a, anchor) ==
  IF a.first_day = anchor THEN "new"
  ELSE IF a.last_day = anchor /\ a.days_7d >= 3 THEN "active"
  ELSE IF a.last_day < anchor /\ a.last_day >= anchor - 7 THEN "warm"
  ELSE IF a.last_day < anchor - 7 /\ a.last_day >= anchor - 30 THEN "dormant"
  ELSE "dormant"

\* select u as user_id from seg where segment = '{seg}'
SegmentSqlUsers(src, seg) ==
  {a.u : a \in {x \in SegmentSqlAgg(src) : SegmentSqlCase(x, AnchorDay(src)) = seg}}

Min2(a, b) == IF a <= b THEN a ELSE b
Max2(a, b) == IF a >= b THEN a ELSE b

\* a negative limit taken by its size
ClampLimitAbs(limit) == Max2(1, Min2(IF limit < 0 THEN 0 - limit ELSE limit, ExportCap))

\* limit = max(1, min(int(limit), 200000))
ClampLimit(limit) == Max2(1, Min2(limit, ExportCap))

\* the requests of the model
SegmentParams == Segments \cup {" Warm ", "VIP", ""}
Limits == {0 - 2, 0, 1, 2, ExportCap + 1}

\* GET /merchant/actions/export_users?segment=p&limit=l : the query with
\* limit appended returns any rows of the segment up to the limit
ExportUsers ==
  /\ pc = "idle"
  /\ columns # NoTable
  /\ UserAndTs(columns)
  /\ \E p \in SegmentParams, l \in Limits :
       LET seg == ResolveSegment(p)
           users == SegmentSqlUsers(source, seg)
           n == Min2(ClampLimit(l), Cardinality(users))
       IN \E rows \in {R \in SUBSET users : Cardinality(R) = n} :
            response' = [endpoint |-> "export_users", status |-> 200,
                         body |-> [segment_param |-> p, limit_param |-> l,
                                   segment |-> seg, user_ids |-> rows]]
  /\ UNCHANGED <<source, action_type, columns, catalog, loose, strict, user_item_stage, pc, mode,
                 rate_check, rc, error>>

\* _segment_sql returns no sql on a database without the table or the
\* columns: JSONResponse({"error": ...}, status_code=500)
ExportUnavailable ==
  /\ pc = "idle"
  /\ columns = NoTable \/ ~UserAndTs(columns)
  /\ response' = [endpoint |-> "export_users", status |-> 500,
                  body |-> [error |-> "segment sql unavailable (missing table/columns?)"]]
  /\ UNCHANGED <<source, action_type, columns, catalog, loose, strict, user_item_stage, pc, mode,
                 rate_check, rc, error>>

\* the export data set: events of several users over a few days
ExpRowSet ==
  [user_id : 1..ExpUsers, item_id : {1}, action : {StrCell("pv")},
   ts : {d * TicksPerDay : d \in 0..ExpDays}]

InsertExpRow == InsertFrom(ExpRowSet, ExpRows, 1)

NextSeg == InsertSegRow \/ SegmentsPayload
SpecSeg == Init /\ [][NextSeg]_vars

NextWeek == InsertWeekRow \/ SegmentsPayload
SpecWeek == Init /\ [][NextWeek]_vars

NextExp == InsertExpRow \/ ExportUsers
SpecExp == Init /\ [][NextExp]_vars

----------------------------------------------------------------------------
(* The merchant API: the item reads of GET /merchant/dashboard *)

\* int(x or 0)
IntOrZero(x) == IF x = NULL THEN 0 ELSE x

\* float(x) if x is not None else 0.0
FloatOrZero(x) == IF x = NULLRATE THEN <<0, 1>> ELSE x


\* a row of the result as the payload reports it
ItemPayload(r) ==
  [item_id |-> r.item_id,
   pv |-> IntOrZero(r.pv),
   fav |-> IntOrZero(r.fav),
   cart |-> IntOrZero(r.cart),
   buy |-> IntOrZero(r.buy),
   pv_to_buy_rate |-> FloatOrZero(r.pv_to_buy_rate)]

\* order by pv_to_buy_rate desc nulls first, pv desc
TopBeforeNullsFirst(a, b) ==
  IF a.pv_to_buy_rate = NULLRATE /\ b.pv_to_buy_rate = NULLRATE THEN a.pv >= b.pv
  ELSE IF a.pv_to_buy_rate = NULLRATE THEN TRUE
  ELSE IF b.pv_to_buy_rate = NULLRATE THEN FALSE
  ELSE \/ RateGt(a.pv_to_buy_rate, b.pv_to_buy_rate)
       \/ a.pv_to_buy_rate = b.pv_to_buy_rate /\ a.pv >= b.pv

\* order by pv_to_buy_rate desc nulls last, pv desc: row a may stand before
\* row b
TopBefore(a, b) ==
  IF a.pv_to_buy_rate = NULLRATE /\ b.pv_to_buy_rate = NULLRATE THEN a.pv >= b.pv
  ELSE IF a.pv_to_buy_rate = NULLRATE THEN FALSE
  ELSE IF b.pv_to_buy_rate = NULLRATE THEN TRUE
  ELSE \/ RateGt(a.pv_to_buy_rate, b.pv_to_buy_rate)
       \/ a.pv_to_buy_rate = b.pv_to_buy_rate /\ a.pv >= b.pv

\* order by pv desc, pv_to_buy_rate asc nulls last: row a may stand before
\* row b
OpportunityBefore(a, b) ==
  \/ a.pv > b.pv
  \/ /\ a.pv = b.pv
     /\ IF b.pv_to_buy_rate = NULLRATE THEN TRUE
        ELSE IF a.pv_to_buy_rate = NULLRATE THEN FALSE
        ELSE ~RateGt(a.pv_to_buy_rate, b.pv_to_buy_rate)

\* every order in which the query of _items_top_payload can return rows
OrderedTop(rows) ==
  {sq \in [1..Cardinality(rows) -> rows] :
     /\ \A i, j \in 1..Cardinality(rows) : i < j => sq[i] # sq[j]
     /\ \A i, j \in 1..Cardinality(rows) : i < j => TopBefore(sq[i], sq[j])}

\* every order in which the query of _items_opportunity_payload can return rows
OrderedOpportunity(rows) ==
  {sq \in [1..Cardinality(rows) -> rows] :
     /\ \A i, j \in 1..Cardinality(rows) : i < j => sq[i] # sq[j]
     /\ \A i, j \in 1..Cardinality(rows) : i < j => OpportunityBefore(sq[i], sq[j])}

\* limit n, then the list comprehension over the rows
LimitItems(sq, n) == [i \in 1..Min2(n, Len(sq)) |-> ItemPayload(sq[i])]

\* the parameters of the item reads
ItemLimits == 0..MaxLimit
MinPvs == 0..MaxMinPv

\* {"items": [], "note": ...}: the view item_funnel_features does not exist
NotBuilt == [items |-> <<>>, note |-> "item_funnel_features not built"]

\* _items_top_payload(limit, min_pv) while no build script runs
ItemsTop ==
  /\ pc = "idle"
  /\ \E limit \in ItemLimits, min_pv \in MinPvs :
       IF V_FEATURES \notin catalog
       THEN response' = [endpoint |-> "items_top", status |-> 200, body |-> NotBuilt]
       ELSE \E sq \in OrderedTop({r \in loose : min_pv > 0 => r.pv >= min_pv}) :
              response' = [endpoint |-> "items_top", status |-> 200,
                           body |-> [items |-> LimitItems(sq, limit),
                                     sort |-> "pv_to_buy_rate",
                                     min_pv |-> min_pv,
                                     limit_param |-> limit]]
  /\ UNCHANGED <<source, action_type, columns, catalog, loose, strict, user_item_stage, pc, mode,
                 rate_check, rc, error>>

\* _items_opportunity_payload(limit, min_pv) while no build script runs
ItemsOpportunity ==
  /\ pc = "idle"
  /\ \E limit \in ItemLimits, min_pv \in MinPvs :
       IF V_FEATURES \notin catalog
       THEN response' = [endpoint |-> "items_opportunity", status |-> 200, body |-> NotBuilt]
       ELSE \E sq \in OrderedOpportunity({r \in loose : r.pv >= min_pv}) :
              response' = [endpoint |-> "items_opportunity", status |-> 200,
                           body |-> [items |-> LimitItems(sq, limit),
                                     sort |-> "pv desc & low conversion",
                                     min_pv |-> min_pv,
                                     limit_param |-> limit]]
  /\ UNCHANGED <<source, action_type, columns, catalog, loose, strict, user_item_stage, pc, mode,
                 rate_check, rc, error>>

\* an item read while the build script holds its connection: the database
\* file is locked by the writing process, duckdb.connect(read_only=True)
\* raises an IOException and the request ends as a server error
ItemsLocked ==
  /\ pc = "built"
  /\ \E e \in {"items_top", "items_opportunity"} :
       response' = [endpoint |-> e, status |-> 500, body |-> [error |-> "IOException"]]
  /\ UNCHANGED <<source, action_type, columns, catalog, loose, strict, user_item_stage, pc, mode,
                 rate_check, rc, error>>

\* the item data set: views and purchases of several users on several
\* items at one moment
ItemRowSet ==
  [user_id : 1..ItemUsers, item_id : 1..ItemItems,
   action : {StrCell("pv"), StrCell("buy")}, ts : {1}]

InsertItemRow == InsertFrom(ItemRowSet, ItemRows, 1)

\* rows are loaded into the source table at any time no script runs
InsertLate(D, cap) ==
  /\ pc = "idle"
  /\ columns # NoTable
  /\ RequireCols(columns)
  /\ BagCardinality(source) < cap
  /\ \E r \in D :
        /\ CopiesIn(r, source) < 1
        /\ source' = source (+) SetToBag({r})
  /\ UNCHANGED <<action_type, columns, catalog, loose, strict, user_item_stage, pc, mode,
                 rate_check, rc, error, response>>

\* the late data set: views and purchases of one user
LateRowSet ==
  [user_id : {1}, item_id : 1..LateItems,
   action : {StrCell("pv"), StrCell("buy")}, ts : {1}]

InsertLateRow == InsertLate(LateRowSet, LateRows)

\* a run of the script of any mode that completes
BuildCompletes == \E m \in Modes : BuildOk(m)

NextLate == InsertLateRow \/ BuildCompletes \/ RateCheck
SpecLate == Init /\ [][NextLate]_vars

NextItems == InsertItemRow \/ Build \/ RateCheck \/ ItemsTop \/ ItemsOpportunity \/ ItemsLocked
SpecItems == Init /\ [][NextItems]_vars

----------------------------------------------------------------------------
(* Databases whose source table is missing or lacks columns *)

\* the source tables of the model: none, or any columns whose names differ
\* in more than letter case
Schemas ==
  {NoTable} \cup {S \in SUBSET ColumnNames : S # {} /\ ~({"user_id", "USER_ID"} \subseteq S)}

InitSchema == InitDb /\ action_type = "VARCHAR" /\ columns \in Schemas

\* the schema data set: a view or a purchase of one user
SchemaRowSet ==
  [user_id : {1}, item_id : {1}, action : {StrCell("pv"), StrCell("buy")}, ts : 1..SchemaTs]

InsertSchemaRow == InsertFrom(SchemaRowSet, SchemaRows, 1)

\* a run of the script on any of the databases
BuildSchema ==
  \E m \in Modes : BuildOk(m) \/ BuildRaises(m) \/ BuildNoTable(m) \/ BuildMissingColumn(m)

NextSchema ==
  \/ InsertSchemaRow
  \/ BuildSchema
  \/ RateCheck
  \/ Metrics
  \/ MetricsUnavailable
  \/ SegmentsPayload
  \/ SegmentsUnavailable
  \/ ExportUsers
  \/ ExportUnavailable
  \/ ItemsTop
  \/ ItemsOpportunity
SpecSchema == InitSchema /\ [][NextSchema]_vars

----------------------------------------------------------------------------
(* The funnel service: GET /funnel/diagnose *)

\* Database._initialize_schema raises: user_behavior exists without a column
\* one of its CREATE INDEX statements names
DatabaseRaises(cols) == cols # NoTable /\ ~({"item_id", "timestamp"} \subseteq cols)

\* the columns of user_behavior after CREATE TABLE IF NOT EXISTS
InitializeSchema(cols) == IF cols = NoTable THEN ImportedColumns ELSE cols

\* the query of FunnelAnalyzer.diagnose raises: it names a column the table
\* does not have
QueryRaises(cols) == ~({"item_id", "behavior", "timestamp"} \subseteq cols)

\* COUNT(*) of the rows of an item and a behavior in the time window
BehaviorCount(src, item, b, start, end) ==
  LET hit == {r \in BagToSet(src) :
                /\ r.item_id = item /\ r.action = StrCell(b)
                /\ r.ts >= start /\ r.ts <= end}
  IN SumOver(hit, [r \in hit |-> CopiesIn(r, src)])

\* (n / d * 100) if d > 0 else 0.0
Percent(n, d) == IF d > 0 THEN Divide(n * 100, d) ELSE <<0, 1>>

\* the result of FunnelAnalyzer.diagnose when its query succeeds
Diagnosis(src, item, days, now) ==
  LET start == now - days * TicksPerDay
      pv == BehaviorCount(src, item, "pv", start, now)
      cart == BehaviorCount(src, item, "cart", start, now)
      fav == BehaviorCount(src, item, "fav", start, now)
      buy == BehaviorCount(src, item, "buy", start, now)
  IN [item_id |-> item, lookback_days |-> days,
      metrics |-> [pv |-> pv, cart |-> cart, fav |-> fav, buy |-> buy,
                   pv_to_cart_rate |-> Percent(cart, pv),
                   cart_to_fav_rate |-> Percent(fav, cart),
                   fav_to_buy_rate |-> Percent(buy, fav),
                   pv_to_buy_rate |-> Percent(buy, pv)]]

\* the requests of the model and the clock
DiagItems == 1..DiagMaxItem
Lookbacks == 1..MaxLookback
Clock == 0..MaxNow

\* GET /funnel/diagnose?item_id=..&lookback_days=.. : diagnose_funnel with
\* get_funnel_analyzer, Database() and FunnelAnalyzer.diagnose; the
\* HTTPException(404) for a result with an error key is raised inside the try
\* block, except Exception catches it and raises HTTPException(500)
DiagnoseFunnel ==
  /\ pc = "idle"
  /\ \E item \in DiagItems, days \in Lookbacks, now \in Clock :
       IF DatabaseRaises(columns)
       THEN /\ columns' = columns
            /\ response' = [endpoint |-> "funnel_diagnose", status |-> 500,
                            body |-> [detail |-> "Funnel analysis error: BinderException"]]
       ELSE /\ columns' = InitializeSchema(columns)
            /\ response' =
                 IF QueryRaises(columns')
                 THEN [endpoint |-> "funnel_diagnose", status |-> 500,
                       body |-> [detail |->
                                   "Funnel analysis error: 404: Could not analyze funnel metrics"]]
                 ELSE [endpoint |-> "funnel_diagnose", status |-> 200,
                       body |-> Diagnosis(source, item, days, now)]
  /\ UNCHANGED <<source, action_type, catalog, loose, strict, user_item_stage, pc, mode,
                 rate_check, rc, error>>

\* the diagnose data set: views and purchases of one user on several items
DiagRowSet ==
  [user_id : {1}, item_id : DiagItems,
   action : {StrCell("pv"), StrCell("buy")}, ts : 1..DiagTs]

InsertDiagRow == InsertFrom(DiagRowSet, DiagRows, 1)

NextDiagnose == InsertDiagRow \/ DiagnoseFunnel
SpecDiagnose == InitSchema /\ [][NextDiagnose]_vars

----------------------------------------------------------------------------
(* Specifications of the funnel build *)

NextText == InsertTextRow \/ Build \/ RateCheck
SpecText == Init /\ [][NextText]_vars

NextRaw == InsertRawRow \/ BuildRaw \/ RateCheck
SpecRaw == Init /\ [][NextRaw]_vars

TypeOK ==
  /\ pc \in {"idle", "built"}
  /\ mode \in Modes \cup {"none"}
  /\ action_type \in {"INTEGER", "VARCHAR"}
  /\ catalog \subseteq {LOOSE, STRICT, V_FEATURES, V_DEFAULT, V_BOTH}

----------------------------------------------------------------------------
(* Properties of the funnel tables *)

\* the tables of the running script were just written from the source
FreshLoose == pc = "built" /\ mode \in {"both", "nonstrict"}
FreshStrict == pc = "built" /\ mode \in {"both", "strict"}

\* the events of the source table with canonical string actions
UsersOf(src) == {e.user_id : e \in BagToSet(src)}
ItemsOf(src) == {e.item_id : e \in BagToSet(src)}
TsOf(src, u, i, a) ==
  {e.ts : e \in {f \in BagToSet(src) :
                   f.user_id = u /\ f.item_id = i /\ f.action = StrCell(a)}}
First(S) == CHOOSE x \in S : \A y \in S : x <= y

\* a count of a funnel table, 0 for an item without a row
Cnt(tbl, it, col) ==
  IF \E r \in tbl : r.item_id = it
  THEN (CHOOSE r \in tbl : r.item_id = it)[col]
  ELSE 0

RateCols ==
  {"pv_to_fav_rate", "pv_to_cart_rate", "pv_to_buy_rate",
   "fav_to_cart_rate", "cart_to_buy_rate"}

\* a rate is a finite number in [0, 1]
UnitRate(x) == x[2] > 0 /\ 0 <= x[1] /\ x[1] <= x[2]

\* C1: in every row of the loose and of the strict funnel table the
\* pv_to_buy_rate is null or lies in [0, 1], buy <= pv, and the rate check
\* of main never counts a bad row.
InvC1 ==
  /\ \A r \in loose \cup strict :
        /\ r.pv_to_buy_rate = NULLRATE \/ UnitRate(r.pv_to_buy_rate)
        /\ r.buy <= r.pv
  /\ rate_check[1] \in {NULL, 0}

WitC1 ==
  /\ \E r \in strict : r.pv_to_buy_rate = <<1, 1>>
  /\ \E r \in loose : r.pv_to_buy_rate = <<1, 1>>
  /\ rate_check = <<0, <<1, 1>>>>

\* C2: in the strict funnel table buy <= cart <= fav <= pv for every item.
InvC2 == \A r \in strict : r.buy <= r.cart /\ r.cart <= r.fav /\ r.fav <= r.pv

WitC2 ==
  /\ FreshStrict
  /\ \E r \in strict : r.buy = 1 /\ r.cart = 1 /\ r.fav = 1 /\ r.pv = 1

\* C3: each of the five conversion rates of every row, in both modes, is
\* null or at most 1.
CexC3 ==
  \A r \in loose \cup strict : \A c \in RateCols :
     r[c] = NULLRATE \/ r[c][1] <= r[c][2]

\* C4 as stated: every row of a funnel table has pv >= 1 (an item without
\* a pv pair has no row).
CexC4 == pc = "built" => \A r \in loose \cup strict : r.pv >= 1

\* the row of an item without a pv pair: zero counts, null pv_to_* rates
ZeroPvRow(r) ==
  r.pv = 0 =>
    /\ r.fav = 0 /\ r.cart = 0 /\ r.buy = 0
    /\ r.pv_to_fav_rate = NULLRATE
    /\ r.pv_to_cart_rate = NULLRATE
    /\ r.pv_to_buy_rate = NULLRATE

ItemsWithRow(tbl) == {r.item_id : r \in tbl}

\* C4 amended: an item has a row in the funnel table of either mode exactly
\* when it has some pv/fav/cart/buy event; the row of an item without a pv
\* pair has pv = fav = cart = buy = 0 and null pv_to_* rates.
InvC4 ==
  /\ FreshLoose => ItemsWithRow(loose) = ItemsOf(source)
  /\ FreshStrict => ItemsWithRow(strict) = ItemsOf(source)
  /\ \A r \in loose \cup strict :
        /\ r.pv >= 0
        /\ ZeroPvRow(r)
        /\ FreshLoose \/ FreshStrict =>
             r.pv = Cardinality({u \in UsersOf(source) : TsOf(source, u, r.item_id, "pv") # {}})

WitC4 ==
  /\ pc = "built" /\ mode = "both"
  /\ \E r \in loose : r.pv = 0
  /\ \E r \in strict : r.pv = 0
  /\ \E r \in loose : r.pv > 0

\* the users of an item whose events satisfy a test on the pair (u, it)
PairsWith(it, T(_, _)) == {u \in UsersOf(source) : T(u, it)}

DownStages == {"fav", "cart", "buy"}

\* C5 as stated: a pair counts at stage X in loose mode iff it has a pv
\* event and SOME X event at or after its first pv event.
SomeAfterPv(u, it, X) ==
  /\ TsOf(source, u, it, "pv") # {}
  /\ \E x \in TsOf(source, u, it, X) : x >= First(TsOf(source, u, it, "pv"))

CexC5 ==
  FreshLoose =>
    \A it \in ItemsOf(source) : \A X \in DownStages :
       Cnt(loose, it, X) =
         Cardinality({u \in UsersOf(source) : SomeAfterPv(u, it, X)})

\* C5 amended: a pair counts at stage X in loose mode iff it has a pv event
\* and an X event and its EARLIEST X event is at or after its earliest pv
\* event, independently of the other stages.
EarliestAfterPv(u, it, X) ==
  /\ TsOf(source, u, it, "pv") # {}
  /\ TsOf(source, u, it, X) # {}
  /\ First(TsOf(source, u, it, X)) >= First(TsOf(source, u, it, "pv"))

InvC5 ==
  FreshLoose =>
    \A it \in ItemsOf(source) : \A X \in DownStages :
       Cnt(loose, it, X) =
         Cardinality({u \in UsersOf(source) : EarliestAfterPv(u, it, X)})

\* a pair with a fav before and a fav after its first pv is not counted,
\* while its cart at the time of the pv is
WitC5 ==
  /\ FreshLoose
  /\ \E u \in UsersOf(source) : \E it \in ItemsOf(source) :
        /\ SomeAfterPv(u, it, "fav")
        /\ ~EarliestAfterPv(u, it, "fav")
        /\ EarliestAfterPv(u, it, "cart")
        /\ First(TsOf(source, u, it, "cart")) = First(TsOf(source, u, it, "pv"))
        /\ Cnt(loose, it, "fav") = 0
        /\ Cnt(loose, it, "cart") = 1

\* the earliest timestamps of a pair form a strictly increasing chain
\* over the stages of the sequence st
Chain(u, it, st) ==
  /\ \A k \in 1..Len(st) : TsOf(source, u, it, st[k]) # {}
  /\ \A k \in 1..(Len(st) - 1) :
        First(TsOf(source, u, it, st[k])) < First(TsOf(source, u, it, st[k + 1]))

ChainCount(it, st) == Cardinality({u \in UsersOf(source) : Chain(u, it, st)})

AllOnes(r) ==
  /\ r.pv = 1 /\ r.fav = 1 /\ r.cart = 1 /\ r.buy = 1
  /\ \A c \in RateCols : r[c] = <<1, 1>>

\* the source holds the events of one pair only
SinglePair(u, it) == UsersOf(source) = {u} /\ ItemsOf(source) = {it}

\* the cart of the pair precedes its fav but not its pv
CartBeforeFav(u, it) ==
  /\ TsOf(source, u, it, "pv") # {}
  /\ TsOf(source, u, it, "fav") # {}
  /\ TsOf(source, u, it, "cart") # {}
  /\ First(TsOf(source, u, it, "cart")) < First(TsOf(source, u, it, "fav"))
  /\ First(TsOf(source, u, it, "cart")) >= First(TsOf(source, u, it, "pv"))

\* C6: over the earliest timestamps of each pair, strict mode counts fav iff
\* pv < fav, cart iff pv < fav < cart, buy iff pv < fav < cart < buy, and
\* loose mode counts cart iff cart >= pv; a single pair pv < fav < cart < buy
\* gives the strict row 1, 1, 1, 1 with all five rates 1, and a pair whose
\* cart precedes its fav but not its pv gives strict cart 0 and loose cart 1.
InvC6 ==
  /\ FreshStrict =>
        \A it \in ItemsOf(source) :
           /\ Cnt(strict, it, "fav") = ChainCount(it, <<"pv", "fav">>)
           /\ Cnt(strict, it, "cart") = ChainCount(it, <<"pv", "fav", "cart">>)
           /\ Cnt(strict, it, "buy") = ChainCount(it, <<"pv", "fav", "cart", "buy">>)
           /\ \A u \in UsersOf(source) :
                 SinglePair(u, it) /\ Chain(u, it, <<"pv", "fav", "cart", "buy">>)
                    => \E r \in strict : r.item_id = it /\ AllOnes(r)
           /\ \A u \in UsersOf(source) :
                 SinglePair(u, it) /\ CartBeforeFav(u, it)
                    => Cnt(strict, it, "cart") = 0
  /\ FreshLoose =>
        \A it \in ItemsOf(source) :
           /\ Cnt(loose, it, "cart") =
                Cardinality({u \in UsersOf(source) : EarliestAfterPv(u, it, "cart")})
           /\ \A u \in UsersOf(source) :
                 SinglePair(u, it) /\ CartBeforeFav(u, it)
                    => Cnt(loose, it, "cart") = 1

WitC6 ==
  /\ pc = "built" /\ mode = "both"
  /\ SinglePair(1, 1)
  /\ Chain(1, 1, <<"pv", "fav", "cart", "buy">>)
  /\ \E r \in strict : AllOnes(r)

\* e repeats an event of the same user, item and action of the source that is
\* not later than e (another copy of e, or an earlier row)
IsRepeat(e) ==
  \/ CopiesIn(e, source) >= 2
  \/ \E f \in BagToSet(source) :
        /\ f # e
        /\ f.user_id = e.user_id /\ f.item_id = e.item_id /\ f.action = e.action
        /\ f.ts <= e.ts

\* the source table without one copy of e
Without(e) == source (-) SetToBag({e})

PairsOfItem(it) == {u \in UsersOf(source) : \E e \in BagToSet(source) :
                                               e.user_id = u /\ e.item_id = it}

\* C7: funnel counts are counts of distinct user-item pairs: no count of an
\* item exceeds the number of its pairs, and the tables built from a source
\* holding a repeated event equal the tables built without that event.
InvC7 ==
  /\ FreshLoose =>
        /\ \A r \in loose : \A c \in Stages :
              r[c] <= Cardinality(PairsOfItem(r.item_id))
        /\ \A e \in BagToSet(source) : IsRepeat(e) => loose = BuildLoose(Without(e))
  /\ FreshStrict =>
        /\ \A r \in strict : \A c \in Stages :
              r[c] <= Cardinality(PairsOfItem(r.item_id))
        /\ \A e \in BagToSet(source) : IsRepeat(e) => strict = BuildStrict(Without(e))

\* a pair with two copies of its pv event and a later second cart event
WitC7 ==
  /\ pc = "built" /\ mode = "both"
  /\ \E e \in BagToSet(source) :
        /\ CopiesIn(e, source) >= 2
        /\ e.action = StrCell("pv")
        /\ Cnt(loose, e.item_id, "pv") = 1
  /\ \E e \in BagToSet(source) : CopiesIn(e, source) = 1 /\ IsRepeat(e)

\* the value of a rate is n / d
RateIs(x, n, d) == x # NULLRATE /\ x[2] > 0 /\ x[1] * d = n * x[2]

\* null-safe division: null exactly on a zero denominator, else n / d
SafeRate(x, n, d) == IF d = 0 THEN x = NULLRATE ELSE RateIs(x, n, d)

\* the pairs of an item counted in the numerators of the two-hop rates
HopOk(u, it, A, B, st) ==
  /\ TsOf(source, u, it, A) # {}
  /\ TsOf(source, u, it, B) # {}
  /\ IF st = 0
     THEN First(TsOf(source, u, it, B)) >= First(TsOf(source, u, it, A))
     ELSE First(TsOf(source, u, it, B)) > First(TsOf(source, u, it, A))

HopCount(it, A, B, st) == Cardinality({u \in UsersOf(source) : HopOk(u, it, A, B, st)})

HopRates(tbl, st) ==
  \A r \in tbl :
     /\ SafeRate(r.fav_to_cart_rate, HopCount(r.item_id, "fav", "cart", st), r.fav)
     /\ SafeRate(r.cart_to_buy_rate, HopCount(r.item_id, "cart", "buy", st), r.cart)

\* C8: every rate of every row is null exactly when its denominator count
\* (pv, fav or cart) is 0 and is otherwise numerator / denominator; it is
\* never a division by zero.
InvC8 ==
  /\ \A r \in loose \cup strict :
        /\ SafeRate(r.pv_to_fav_rate, r.fav, r.pv)
        /\ SafeRate(r.pv_to_cart_rate, r.cart, r.pv)
        /\ SafeRate(r.pv_to_buy_rate, r.buy, r.pv)
        /\ r.fav_to_cart_rate = NULLRATE <=> r.fav = 0
        /\ r.cart_to_buy_rate = NULLRATE <=> r.cart = 0
        /\ \A c \in RateCols : r[c] = NULLRATE \/ r[c][2] > 0
  /\ FreshLoose => HopRates(loose, 0)
  /\ FreshStrict => HopRates(strict, 1)

WitC8 ==
  /\ FreshLoose
  /\ \E r \in loose :
        /\ r.pv = 2 /\ r.fav = 1 /\ r.cart = 0
        /\ r.pv_to_fav_rate = <<1, 2>>
        /\ r.fav_to_cart_rate = <<0, 1>>
        /\ r.cart_to_buy_rate = NULLRATE

\* C9: in loose mode pv bounds every stage, while cart may exceed fav and
\* buy may exceed cart.
InvC9 == \A r \in loose : r.fav <= r.pv /\ r.cart <= r.pv /\ r.buy <= r.pv

WitC9 ==
  /\ FreshLoose
  /\ \E r \in loose : r.cart > r.fav /\ r.cart <= r.pv /\ r.buy <= r.cart

\* the numeric code of a cell of the action column, NULL for a cell that
\* is not a number
CodeOf(c) ==
  IF c.type = "INTEGER" THEN c.int
  ELSE CASE c.str = "1" -> 1 [] c.str = "2" -> 2 [] c.str = "3" -> 3
         [] c.str = "4" -> 4 [] c.str = "5" -> 5 [] c.str = "6" -> 6
         [] OTHER -> NULL

CodeName == <<"pv", "fav", "cart", "buy">>

\* the source table with every numeric code 1..4 written as its string
\* code and without the rows of any other numeric code
StringCoded(src) ==
  LET kept == {e \in BagToSet(src) : CodeOf(e.action) = NULL \/ CodeOf(e.action) \in 1..4}
  IN SetToBag({[e EXCEPT !.action =
                   IF CodeOf(e.action) = NULL THEN e.action
                   ELSE StrCell(CodeName[CodeOf(e.action)])] : e \in kept})

\* C10: the funnel tables built from a source whose actions are numeric
\* codes (integers or digit strings) are the tables built from the same
\* source written with the string codes pv/fav/cart/buy; a code outside
\* 1..4 adds to no count.
InvC10 ==
  /\ FreshLoose => loose = BuildLoose(StringCoded(source))
  /\ FreshStrict => strict = BuildStrict(StringCoded(source))
  /\ FreshLoose =>
        \A e \in BagToSet(source) :
           CodeOf(e.action) # NULL /\ CodeOf(e.action) \notin 1..4
              => loose = BuildLoose(Without(e))

\* an integer-coded source with a view, a later cart and a code outside 1..4
WitC10 ==
  /\ pc = "built" /\ mode = "both"
  /\ action_type = "INTEGER"
  /\ \E e \in BagToSet(source) : e.action = IntCell(MaxCode)
  /\ \E r \in loose : r.pv = 1 /\ r.cart = 1 /\ r.fav = 0
  /\ StringCoded(source) # source

----------------------------------------------------------------------------
(* Properties of the normalizer *)

\* TRIM(<VARCHAR>) on the strings the model uses
Trimmed == ("pv " :> "pv") @@ (" buy" :> "buy")

Trim(s) == IF s \in DOMAIN Trimmed THEN Trimmed[s] ELSE s

\* the source table with every action text lower-cased and trimmed
TrimLowered(src) ==
  SetToBag({[e EXCEPT !.action = StrCell(Trim(Lower(e.action.str)))] : e \in BagToSet(src)})

\* C11: the funnel tables built from a source whose action texts differ
\* from pv, fav, cart, buy only by letter case or by blanks around them are
\* the tables built from the same source with the actions lower-cased and
\* trimmed; any other text yields no event.
CexC11 ==
  /\ FreshLoose => loose = BuildLoose(TrimLowered(source))
  /\ FreshStrict => strict = BuildStrict(TrimLowered(source))

\* a row of which a column is NULL or cannot be parsed
Unparseable(e) ==
  \/ e.user_id \in {NULL, BADTEXT}
  \/ e.item_id \in {NULL, BADTEXT}
  \/ e.ts \in {NULL, BADTEXT}
  \/ NormAction(e.action) \notin Stages

\* the source table without the rows that cannot be parsed
Parsed(src) ==
  LET kept == {e \in BagToSet(src) : ~Unparseable(e)}
  IN [e \in kept |-> CopiesIn(e, src)]

\* C12: a source row that cannot be parsed never makes the build fail, and
\* the tables built are the tables built from the source without that row.
CexC12 ==
  /\ error # "ConversionException"
  /\ FreshLoose => loose = BuildLoose(Parsed(source))
  /\ FreshStrict => strict = BuildStrict(Parsed(source))

----------------------------------------------------------------------------
(* Properties of GET /merchant/metrics *)

\* the metrics request was answered with a payload
MetricsOk == response.endpoint = "metrics" /\ response.status = 200

\* the days on which the source table has an event, and the users of a day
DaysPresent == {e.ts \div TicksPerDay : e \in BagToSet(source)}
UsersOn(d) == {e.user_id : e \in {f \in BagToSet(source) : f.ts \div TicksPerDay = d}}

\* the days present whose next day is present too
DaysWithNext == {d \in DaysPresent : d + 1 \in DaysPresent}

\* C13: the retention metric is reported for the latest day present whose
\* next day is present too, and is absent when no day present has its next
\* day present.
CexC13 ==
  MetricsOk =>
    IF DaysWithNext = {} THEN response.body.d1_retention = NoD1
    ELSE response.body.d1_retention.day = Latest(DaysWithNext)

\* C14: a reported retention day is earlier than the latest day present;
\* for events on exactly the five consecutive days 1..5 it is day 4; the
\* active users are the users of that day, the retained users those of them
\* who are also active on the next day, never more than the active users.
InvC14 ==
  MetricsOk =>
    LET d1 == response.body.d1_retention
    IN /\ d1 # NoD1 =>
             /\ d1.day \in DaysPresent
             /\ d1.day < Latest(DaysPresent)
             /\ d1.active_users = Cardinality(UsersOn(d1.day))
             /\ d1.retained_users = Cardinality(UsersOn(d1.day) \cap UsersOn(d1.day + 1))
             /\ d1.retained_users <= d1.active_users
       /\ DaysPresent = 1..5 => d1.day = 4

\* events on each of the days 1..5, one of two users of day 4 back on day 5
WitC14 ==
  /\ MetricsOk
  /\ DaysPresent = 1..5
  /\ response.body.d1_retention.day = 4
  /\ response.body.d1_retention.active_users = 2
  /\ response.body.d1_retention.retained_users = 1

\* the buy timestamps of a user and the users who bought
BuyTimes(u) ==
  {e.ts : e \in {f \in BagToSet(source) : f.user_id = u /\ f.action = StrCell("buy")}}
Buyers == {u \in UsersOf(source) : BuyTimes(u) # {}}
Week == 7 * TicksPerDay
Repurchasers ==
  {u \in Buyers : \E t \in BuyTimes(u) :
                     MinOf(BuyTimes(u)) < t /\ t <= MinOf(BuyTimes(u)) + Week}

\* C15: buyers is the number of users with a buy event; a buyer is counted
\* in repurchasers_7d exactly when one of the buyer's buy events is later
\* than the buyer's first buy and at most 7 days later; repurchasers_7d
\* never exceeds buyers.
InvC15 ==
  MetricsOk =>
    LET rep == response.body.repurchase_7d
    IN /\ rep.buyers = Cardinality(Buyers)
       /\ rep.repurchasers_7d = Cardinality(Repurchasers)
       /\ rep.repurchasers_7d <= rep.buyers
       /\ \A u \in Buyers :
             /\ BuyTimes(u) = {0, Week} => u \in Repurchasers
             /\ BuyTimes(u) = {0, Week + TicksPerDay} => u \notin Repurchasers
             /\ Cardinality(BuyTimes(u)) = 1 => u \notin Repurchasers

\* two buyers: one buys again exactly 7 days after the first buy, the other
\* buys once
WitC15 ==
  /\ MetricsOk
  /\ BuyTimes(1) = {0, Week}
  /\ Cardinality(BuyTimes(2)) = 1
  /\ response.body.repurchase_7d.buyers = 2
  /\ response.body.repurchase_7d.repurchasers_7d = 1

----------------------------------------------------------------------------
(* Properties of the lifecycle segments *)

\* the segments request was answered
SegmentsOk == response.endpoint = "segments" /\ response.status = 200

\* the days on which a user has an event, the first and the last of them
ActiveDays(u) ==
  {e.ts \div TicksPerDay : e \in {f \in BagToSet(source) : f.user_id = u}}
FirstActiveDay(u) == MinOf(ActiveDays(u))
LastActiveDay(u) == Latest(ActiveDays(u))

\* anchor_day: the latest day of the data
Anchor == Latest(DaysPresent)

\* the users with an active day in [anchor_day - 30, anchor_day]
WindowUsers ==
  {u \in UsersOf(source) : \E d \in ActiveDays(u) : Anchor - 30 <= d /\ d <= Anchor}

\* the users the segmenter assigns a segment, and the number of them the
\* response reports for a segment
UsersIn(sg) == {x.u : x \in {y \in Seg(source) : y.segment = sg}}
Reported(sg) ==
  LET segs == response.body.segments
      at == {i \in DOMAIN segs : segs[i].segment = sg}
  IN IF at = {} THEN 0 ELSE segs[CHOOSE i \in at : TRUE].users

\* C16: every user with an active day in the 30-day window is in exactly
\* one of the segments new, active, warm, dormant, no other user is in a
\* segment, and the users reported per segment sum to total_users, the
\* number of users of the window.
InvC16 ==
  SegmentsOk =>
    /\ \A u \in WindowUsers : Cardinality({sg \in Segments : u \in UsersIn(sg)}) = 1
    /\ \A u \in UsersOf(source) \ WindowUsers : \A sg \in Segments : u \notin UsersIn(sg)
    /\ \A x \in Seg(source) : x.segment \in Segments
    /\ \A sg \in Segments : Reported(sg) = Cardinality(UsersIn(sg))
    /\ \A i, j \in DOMAIN response.body.segments :
          i # j => response.body.segments[i].segment # response.body.segments[j].segment
    /\ response.body.total_users = SumOver(Segments, [sg \in Segments |-> Reported(sg)])
    /\ response.body.total_users = Cardinality(WindowUsers)

\* one user of the window and one user whose only day is before the window
WitC16 ==
  /\ SegmentsOk
  /\ UsersOf(source) \ WindowUsers # {}
  /\ response.body.total_users = 1

\* C17: a user is in segment new exactly when the earliest day of all of
\* the user's events is the anchor day.
CexC17 ==
  SegmentsOk =>
    /\ \A u \in UsersOf(source) : u \in UsersIn("new") <=> FirstActiveDay(u) = Anchor
    /\ Reported("new") = Cardinality({u \in UsersOf(source) : FirstActiveDay(u) = Anchor})

\* C18: every user in segment dormant has a last active day before
\* anchor_day - 7 and not before anchor_day - 30.
CexC18 ==
  SegmentsOk =>
    /\ \A u \in UsersIn("dormant") :
          LastActiveDay(u) < Anchor - 7 /\ LastActiveDay(u) >= Anchor - 30
    /\ Reported("dormant") =
          Cardinality({u \in WindowUsers : LastActiveDay(u) < Anchor - 7})

\* the active days of a user in [anchor_day - 7, anchor_day]
DaysOfWeek(u) == {d \in ActiveDays(u) : Anchor - 7 <= d /\ d <= Anchor}

\* C19: a user not in segment new is in segment active exactly when the
\* user's last active day is the anchor day and the user has at least 3
\* active days in [anchor_day - 7, anchor_day]; a user in neither is in
\* segment warm exactly when the last active day is before the anchor day
\* and not before anchor_day - 7.
InvC19 ==
  SegmentsOk =>
    /\ \A u \in WindowUsers \ UsersIn("new") :
          u \in UsersIn("active")
            <=> (LastActiveDay(u) = Anchor /\ Cardinality(DaysOfWeek(u)) >= 3)
    /\ \A u \in WindowUsers \ (UsersIn("new") \cup UsersIn("active")) :
          u \in UsersIn("warm")
            <=> (Anchor - 7 <= LastActiveDay(u) /\ LastActiveDay(u) < Anchor)
    /\ Reported("active") = Cardinality(UsersIn("active"))
    /\ Reported("warm") = Cardinality(UsersIn("warm"))

\* a user with three active days of the last week, the last on the anchor day
WitC19 ==
  /\ SegmentsOk
  /\ Reported("active") = 1
  /\ \E u \in UsersIn("active") : Cardinality(DaysOfWeek(u)) = 3 /\ FirstActiveDay(u) = Anchor - 7

\* the export request was answered
ExportOk == response.endpoint = "export_users" /\ response.status = 200

\* C20: an export of segment X returns only users the segmenter puts in X
\* on the same data, and at most min(max(limit, 1), 200000) rows whatever
\* the limit asked for.
InvC20 ==
  ExportOk =>
    /\ response.body.user_ids \subseteq UsersIn(response.body.segment)
    /\ response.body.segment_param \in Segments
          => response.body.segment = response.body.segment_param
    /\ Cardinality(response.body.user_ids)
          <= Min2(Max2(response.body.limit_param, 1), 200000)

\* a negative limit on a segment of two users returns one of them
WitC20 ==
  /\ ExportOk
  /\ response.body.limit_param < 0
  /\ response.body.segment_param = "new"
  /\ Cardinality(UsersIn("new")) = 2
  /\ Cardinality(response.body.user_ids) = 1

----------------------------------------------------------------------------
(* Properties of the item reads *)

\* the last response is a list of items read from item_funnel_features
ItemsRead(e) ==
  /\ response.endpoint = e
  /\ response.status = 200
  /\ "sort" \in DOMAIN response.body

\* the row of item_funnel_features of an item
Stored(it) == CHOOSE r \in loose : r.item_id = it

\* C21: the top-items read returns at most limit items, each a row of
\* item_funnel_features, no item twice; of two returned items the earlier
\* one never has a null stored rate before a non-null one nor a lower
\* stored rate, and at equal stored rates (or two null rates) it has at least
\* the pv of the later one; when min_pv > 0 every returned item has
\* pv >= min_pv.
InvC21 ==
  ItemsRead("items_top") =>
    LET items == response.body.items
        rate(i) == Stored(items[i].item_id).pv_to_buy_rate
    IN /\ Len(items) <= response.body.limit_param
       /\ \A i \in 1..Len(items) : \E r \in loose : r.item_id = items[i].item_id
       /\ \A i, j \in 1..Len(items) :
            i < j =>
              /\ items[i].item_id # items[j].item_id
              /\ rate(i) = NULLRATE => rate(j) = NULLRATE
              /\ (rate(i) # NULLRATE /\ rate(j) # NULLRATE) => ~RateGt(rate(j), rate(i))
              /\ rate(i) = rate(j) => items[i].pv >= items[j].pv
       /\ response.body.min_pv > 0 =>
            \A i \in 1..Len(items) : items[i].pv >= response.body.min_pv

\* a read with min_pv > 0 returned two items of one stored rate in the order
\* of their pv
WitC21 ==
  /\ ItemsRead("items_top")
  /\ response.body.min_pv > 0
  /\ Len(response.body.items) = 2
  /\ Stored(response.body.items[1].item_id).pv_to_buy_rate # NULLRATE
  /\ Stored(response.body.items[1].item_id).pv_to_buy_rate
       = Stored(response.body.items[2].item_id).pv_to_buy_rate
  /\ response.body.items[1].pv > response.body.items[2].pv

\* C22: every item of the top-items and opportunity-items reads is reported
\* with the pv, fav, cart, buy and pv_to_buy_rate stored for it in
\* item_funnel_features, a null stored rate as a null rate.
CexC22 ==
  \A e \in {"items_top", "items_opportunity"} :
    ItemsRead(e) =>
      \A i \in 1..Len(response.body.items) :
        LET item == response.body.items[i]
            row == Stored(item.item_id)
        IN /\ item.pv = row.pv
           /\ item.fav = row.fav
           /\ item.cart = row.cart
           /\ item.buy = row.buy
           /\ item.pv_to_buy_rate = row.pv_to_buy_rate

\* C29: an item read served while a build script runs answers with status
\* 200, and its body is the empty item list of a database without funnel or
\* a list of rows of item_funnel_features_loose; it never ends in an
\* exception.
CexC29 ==
  [][(pc = "built" /\ pc' = "built"
        /\ response'.endpoint \in {"items_top", "items_opportunity"})
       => /\ response'.status = 200
          /\ \A i \in 1..Len(response'.body.items) :
               \E r \in loose : r.item_id = response'.body.items[i].item_id]_vars

----------------------------------------------------------------------------
(* Properties of the two modes and of repeated builds *)

InvC23 ==
  [][(pc = "idle" /\ rc = 0 /\ source' = source /\ mode' = mode /\ rc' # rc)
       => /\ pc' = "built"
          /\ rc' = NULL
          /\ catalog' = catalog
          /\ loose' = loose
          /\ strict' = strict]_vars

\* a strict build has completed on a database whose two tables differ
WitC23 ==
  /\ pc = "idle" /\ rc = 0 /\ mode = "strict"
  /\ catalog = {LOOSE, STRICT, V_FEATURES, V_DEFAULT}
  /\ strict # {} /\ strict # loose

\* C24: a run of the build that dies of an exception leaves the catalog and
\* the rows of the loose and of the strict table as they were before it.
CexC24 ==
  [][(pc = "idle" /\ rc' = 1 /\ error' # "" /\ rate_check' = <<NULL, NULLRATE>>)
       => /\ catalog' = catalog
          /\ loose' = loose
          /\ strict' = strict]_vars

\* C25: when a build has completed, every funnel table in the catalog holds
\* the aggregates of the source table that build read, and each view reads
\* from such a table.
CexC25 ==
  pc = "built" =>
    /\ LOOSE \in catalog => loose = BuildLoose(source)
    /\ STRICT \in catalog => strict = BuildStrict(source)
    /\ catalog \cap {V_FEATURES, V_DEFAULT, V_BOTH} # {} => LOOSE \in catalog
    /\ V_BOTH \in catalog => STRICT \in catalog

\* C26: no run of the build over a source table with the four columns and
\* rows it can cast dies, whatever the mode and the catalog before it, and
\* when it has completed the views item_funnel_features and
\* item_funnel_features_default exist over an existing
\* item_funnel_features_loose.
CexC26 ==
  /\ rc # 1
  /\ pc = "built" => {V_FEATURES, V_DEFAULT, LOOSE} \subseteq catalog

----------------------------------------------------------------------------
(* Properties of the error paths *)

\* the reads of the merchant API do not find the table or a column they need
SchemaMissing == columns = NoTable \/ ~UserAndTs(columns)

\* C27: on a database whose source table or one of whose required columns
\* is missing no run of the build dies of an exception, and the metrics,
\* segments and export reads answer with a body that names the cause under
\* "error"; the item reads answer with status 200.
CexC27 ==
  /\ (columns = NoTable \/ ~RequireCols(columns)) => rc # 1
  /\ (SchemaMissing /\ response.endpoint \in {"metrics", "segments", "export_users"})
       => "error" \in DOMAIN response.body
  /\ response.endpoint \in {"items_top", "items_opportunity"} => response.status = 200

\* C30: GET /funnel/diagnose answers with status 404 and the message of the
\* result whenever the query of FunnelAnalyzer.diagnose failed, and with
\* status 500 only when the analyzer could not be called because
\* Database() raised.
CexC30 ==
  response.endpoint = "funnel_diagnose" =>
    /\ (~DatabaseRaises(columns) /\ QueryRaises(columns))
         => /\ response.status = 404
            /\ response.body.detail = "Could not analyze funnel metrics"
    /\ response.status = 500 => DatabaseRaises(columns)

====
